---- MODULE Spec2Model ----
(***************************************************************************)
(* A model of the two command families of pi found in                      *)
(* pkg/pi/cmd/config/view.go:                                              *)
(*   - `pi create service <kind>`: NewCmdCreateService and the four        *)
(*     CreateService* implementations (specification Spec);                *)
(*   - `pi config view`: NewCmdConfigView and ViewOptions.Run              *)
(*     (specification SpecView).                                           *)
(* Collaborators whose code is not part of the file (NameFromCommandArgs,  *)
(* RunCreateSubcommand and the generator's Generate) follow the written    *)
(* design of the subcommand runner and of the structured generators.       *)
(***************************************************************************)
EXTENDS Integers, Sequences, FiniteSets, TLC

(* ------------------------------ bounds -------------------------------- *)

\* longest --tcp list a user supplies
MaxTcp == 1
\* invocations of a command within one behaviour
MaxInvocations == 2

(* --------------------------- program names ---------------------------- *)

\* the subcommands for which a constructor NewCmdCreateService<Kind> exists
Subcommands == {"clusterip", "nodeport", "loadbalancer", "externalname"}

\* a tree with all four AddCommand calls in effect
RegisteredSubcommands_All == {"clusterip", "nodeport", "loadbalancer", "externalname"}

\* cmd.AddCommand calls of NewCmdCreateService that are not commented out
RegisteredSubcommands == {"clusterip", "loadbalancer"}

\* cmdutil.Service<Kind>GeneratorV1Name, the name each switch accepts
V1Name(sub) ==
    CASE sub = "clusterip"    -> "ServiceClusterIPGeneratorV1Name"
      [] sub = "nodeport"     -> "ServiceNodePortGeneratorV1Name"
      [] sub = "loadbalancer" -> "ServiceLoadBalancerGeneratorV1Name"
      [] sub = "externalname" -> "ServiceExternalNameGeneratorV1Name"

\* v1.ServiceType<Kind>
ServiceTypeClusterIP    == "ClusterIP"
ServiceTypeNodePort     == "NodePort"
ServiceTypeLoadBalancer == "LoadBalancer"
ServiceTypeExternalName == "ExternalName"

FlagNames ==
    {"tcp", "clusterip", "generator", "nodeport", "loadbalancerip",
     "selector", "externalname"}

\* the flags each constructor registers on its command (the commented-out
\* cmdutil.Add*Flags calls register nothing)
RegisteredFlags(sub) ==
    CASE sub = "clusterip"    -> {"tcp", "clusterip"}
      [] sub = "nodeport"     -> {"tcp", "generator", "nodeport"}
      [] sub = "loadbalancer" -> {"tcp", "loadbalancerip", "selector"}
      [] sub = "externalname" -> {"tcp", "generator", "externalname"}

\* the default each flag is registered with
FlagDefault(sub, f) ==
    CASE f = "tcp"            -> <<>>
      [] f = "clusterip"      -> ""
      [] f = "generator"      -> V1Name(sub)
      [] f = "nodeport"       -> 0
      [] f = "loadbalancerip" -> ""
      [] f = "selector"       -> <<>>
      [] f = "externalname"   -> ""

(* ------------------------------ inputs -------------------------------- *)

\* a "<port>:<targetPort>" pair, already split on ':'
PortSpecs == {<<5678, 8080>>, <<0, 80>>}

SeqsUpTo(S, n) == UNION {[1..k -> S] : k \in 1..n}

TcpValues      == SeqsUpTo(PortSpecs, MaxTcp)
ClusterIPValues == {"None", "10.0.0.1", "not-an-ip"}
GeneratorValues ==
    {"ServiceNodePortGeneratorV1Name", "ServiceExternalNameGeneratorV1Name",
     "nonexistent"}
NodePortValues == {30080}
LoadBalancerIPValues == {"1.2.3.4"}
\* a selector entry, already split on '='
SelectorValues == {<< <<"role", "web">> >>, << <<"roleweb">> >>}
ExternalNameValues == {"bar.com", "bad_name!"}

\* a flag as the user typed it: given or not, and its value when given
Flag(vals, dummy) ==
    {[set |-> FALSE, val |-> dummy]} \cup {[set |-> TRUE, val |-> v] : v \in vals}

Argvs ==
    [tcp            : Flag(TcpValues, <<>>),
     clusterip      : Flag(ClusterIPValues, ""),
     generator      : Flag(GeneratorValues, ""),
     nodeport       : Flag(NodePortValues, 0),
     loadbalancerip : Flag(LoadBalancerIPValues, ""),
     selector       : Flag(SelectorValues, <<>>),
     externalname   : Flag(ExternalNameValues, "")]

ArgLists == {<<>>, <<"my-cs">>, <<"">>}

Inputs ==
    [sub : Subcommands, viaService : BOOLEAN, args : ArgLists,
     argv : Argvs, dryRun : BOOLEAN, outputFormat : {"", "yaml"}]

(* ------------------------------ values -------------------------------- *)

NoError == [kind |-> "nil", detail |-> ""]
Error(k, d) == [kind |-> k, detail |-> d]

\* a nil pi.StructuredGenerator
NilGenerator ==
    [Name |-> "", TCP |-> <<>>, Type |-> "nil", ClusterIP |-> "",
     NodePort |-> 0, LoadBalancerIP |-> "", Selector |-> <<>>,
     ExternalName |-> ""]

\* the zero value of pi.ServiceCommonGeneratorV1
ZeroGenerator == [NilGenerator EXCEPT !.Type = ""]

Absent == "<absent>"
NilObject ==
    [kind |-> "nil", name |-> "", type |-> "", clusterIP |-> Absent,
     ports |-> <<>>, nodePort |-> 0, loadBalancerIP |-> "",
     selector |-> <<>>, externalName |-> ""]

NoInput ==
    [sub |-> "clusterip", viaService |-> FALSE, args |-> <<>>,
     argv |-> [tcp |-> [set |-> FALSE, val |-> <<>>],
               clusterip |-> [set |-> FALSE, val |-> ""],
               generator |-> [set |-> FALSE, val |-> ""],
               nodeport |-> [set |-> FALSE, val |-> 0],
               loadbalancerip |-> [set |-> FALSE, val |-> ""],
               selector |-> [set |-> FALSE, val |-> <<>>],
               externalname |-> [set |-> FALSE, val |-> ""]],
     dryRun |-> FALSE, outputFormat |-> ""]

(* ------------------------------- state -------------------------------- *)

VARIABLES
    pc,         \* position of the current create-service invocation
    input,      \* what the user typed for the current invocation
    name,       \* result of NameFromCommandArgs
    generator,  \* the local `generator` of CreateService<Kind>
    handed,     \* CreateSubcommandOptions.StructuredGenerator given to RunCreateSubcommand
    object,     \* the Object the generator produced
    err,        \* the error the invocation returned
    steps,      \* the calls the invocation made, in order
    submitted,  \* the Object was handed to the submission collaborator
    printed,    \* what the printer was given: "", "object" or "confirmation"
    nInv,       \* invocations started so far
    hasPrev,    \* the previous invocation had the same input
    prevGen,    \* the generator the previous invocation handed on
    prevObj,    \* the Object the previous invocation produced
    vpc,        \* position of the current `config view` invocation
    vinput,     \* what the user typed for `config view`
    flagOutput, \* value of the "output" flag held by the view command
    outputFormat, \* the local outputFormat of the Run closure
    errOut,     \* messages written to errOut
    printerFormat, \* format the printer was built with ("<none>" before)
    config,     \* the config Run holds
    loaded,     \* the config GetStartingConfig returned
    vsteps,     \* the calls ViewOptions.Run made, in order, each with its error
    vprints,    \* number of PrintObj calls
    vprintedConfig, \* the config given to PrintObj
    vret,       \* what ViewOptions.Run returned
    vInv        \* executions of the view command so far

createVars ==
    <<pc, input, name, generator, handed, object, err, steps, submitted,
      printed, nInv, hasPrev, prevGen, prevObj>>
viewVars ==
    <<vpc, vinput, flagOutput, outputFormat, errOut, printerFormat, config,
      loaded, vsteps, vprints, vprintedConfig, vret, vInv>>
vars == <<createVars, viewVars>>

(* ----------------------- create service: helpers ---------------------- *)

\* cmdutil.GetFlagString / GetFlagStringSlice / GetFlagInt on the parsed command
GetFlag(in, f) ==
    IF in.argv[f].set THEN in.argv[f].val ELSE FlagDefault(in.sub, f)

\* the flags the user gave on the command line
GivenFlags(in) == {f \in FlagNames : in.argv[f].set}

errUnsupportedGenerator(generatorName) ==
    Error("UnsupportedGenerator", generatorName)

\* NameFromCommandArgs: the NAME argument is required
NameFromCommandArgs(args) ==
    IF Len(args) = 0
    THEN [name |-> "", err |-> Error("UsageError", "NAME is required")]
    ELSE [name |-> args[1], err |-> NoError]

\* the clusterip flag is not copied into the generator
CreateServiceClusterIPGenerator_DropClusterIP(in, nm) ==
    [generator |-> [ZeroGenerator EXCEPT
                       !.Name = nm,
                       !.TCP = GetFlag(in, "tcp"),
                       !.Type = ServiceTypeClusterIP],
     err |-> NoError]

\* the switch of CreateServiceClusterIP: the name switched on is the constant
CreateServiceClusterIPGenerator(in, nm) ==
    LET generatorName == V1Name("clusterip") IN
    IF generatorName = V1Name("clusterip")
    THEN [generator |-> [ZeroGenerator EXCEPT
                            !.Name = nm,
                            !.TCP = GetFlag(in, "tcp"),
                            !.Type = ServiceTypeClusterIP,
                            !.ClusterIP = GetFlag(in, "clusterip")],
          err |-> NoError]
    ELSE [generator |-> NilGenerator, err |-> errUnsupportedGenerator(generatorName)]

\* the switch has no default branch: any generator name builds the generator
CreateServiceNodePortGenerator_AnyName(in, nm) ==
    [generator |-> [ZeroGenerator EXCEPT
                       !.Name = nm,
                       !.TCP = GetFlag(in, "tcp"),
                       !.Type = ServiceTypeNodePort,
                       !.ClusterIP = "",
                       !.NodePort = GetFlag(in, "nodeport")],
     err |-> NoError]

\* the switch of CreateServiceNodePort: the name comes from the generator flag
CreateServiceNodePortGenerator(in, nm) ==
    LET generatorName == GetFlag(in, "generator") IN
    IF generatorName = V1Name("nodeport")
    THEN [generator |-> [ZeroGenerator EXCEPT
                            !.Name = nm,
                            !.TCP = GetFlag(in, "tcp"),
                            !.Type = ServiceTypeNodePort,
                            !.ClusterIP = "",
                            !.NodePort = GetFlag(in, "nodeport")],
          err |-> NoError]
    ELSE [generator |-> NilGenerator, err |-> errUnsupportedGenerator(generatorName)]

\* a field of the generator is taken from a counter that outlives an invocation
CreateServiceLoadBalancerGenerator_Counter(in, nm) ==
    [generator |-> [ZeroGenerator EXCEPT
                       !.Name = nm,
                       !.TCP = GetFlag(in, "tcp"),
                       !.Type = ServiceTypeLoadBalancer,
                       !.ClusterIP = "",
                       !.NodePort = nInv,
                       !.LoadBalancerIP = GetFlag(in, "loadbalancerip"),
                       !.Selector = GetFlag(in, "selector")],
     err |-> NoError]

\* the switch of CreateServiceLoadBalancer: the name switched on is the constant
CreateServiceLoadBalancerGenerator(in, nm) ==
    LET generatorName == V1Name("loadbalancer") IN
    IF generatorName = V1Name("loadbalancer")
    THEN [generator |-> [ZeroGenerator EXCEPT
                            !.Name = nm,
                            !.TCP = GetFlag(in, "tcp"),
                            !.Type = ServiceTypeLoadBalancer,
                            !.ClusterIP = "",
                            !.LoadBalancerIP = GetFlag(in, "loadbalancerip"),
                            !.Selector = GetFlag(in, "selector")],
          err |-> NoError]
    ELSE [generator |-> NilGenerator, err |-> errUnsupportedGenerator(generatorName)]

\* the external name is also stored as ClusterIP
CreateExternalNameServiceGenerator_ClusterIPSet(in, nm) ==
    LET generatorName == GetFlag(in, "generator") IN
    IF generatorName = V1Name("externalname")
    THEN [generator |-> [ZeroGenerator EXCEPT
                            !.Name = nm,
                            !.Type = ServiceTypeExternalName,
                            !.ExternalName = GetFlag(in, "externalname"),
                            !.ClusterIP = GetFlag(in, "externalname")],
          err |-> NoError]
    ELSE [generator |-> NilGenerator, err |-> errUnsupportedGenerator(generatorName)]

\* the tcp flag is copied as in the other variants
CreateExternalNameServiceGenerator_WithTCP(in, nm) ==
    LET generatorName == GetFlag(in, "generator") IN
    IF generatorName = V1Name("externalname")
    THEN [generator |-> [ZeroGenerator EXCEPT
                            !.Name = nm,
                            !.TCP = GetFlag(in, "tcp"),
                            !.Type = ServiceTypeExternalName,
                            !.ExternalName = GetFlag(in, "externalname"),
                            !.ClusterIP = ""],
          err |-> NoError]
    ELSE [generator |-> NilGenerator, err |-> errUnsupportedGenerator(generatorName)]

\* the switch of CreateExternalNameService: the name comes from the generator flag
CreateExternalNameServiceGenerator(in, nm) ==
    LET generatorName == GetFlag(in, "generator") IN
    IF generatorName = V1Name("externalname")
    THEN [generator |-> [ZeroGenerator EXCEPT
                            !.Name = nm,
                            !.Type = ServiceTypeExternalName,
                            !.ExternalName = GetFlag(in, "externalname"),
                            !.ClusterIP = ""],
          err |-> NoError]
    ELSE [generator |-> NilGenerator, err |-> errUnsupportedGenerator(generatorName)]

\* the generator switch of the subcommand that runs
BuildGenerator(in, nm) ==
    CASE in.sub = "clusterip"    -> CreateServiceClusterIPGenerator(in, nm)
      [] in.sub = "nodeport"     -> CreateServiceNodePortGenerator(in, nm)
      [] in.sub = "loadbalancer" -> CreateServiceLoadBalancerGenerator(in, nm)
      [] in.sub = "externalname" -> CreateExternalNameServiceGenerator(in, nm)

(* ------------------ structured generator: Generate -------------------- *)

IsIP(s) == s \in {"10.0.0.1", "1.2.3.4"}
IsDNSName(s) == s \in {"bar.com"}

BadPort(p) == p[1] <= 0
BadSelector(e) == Len(e) # 2

\* index of the first port pair the parser rejects, 0 when there is none
FirstBadPort(q) ==
    IF \E i \in 1..Len(q) : BadPort(q[i])
    THEN CHOOSE i \in 1..Len(q) : BadPort(q[i]) /\ \A j \in 1..(i - 1) : ~BadPort(q[j])
    ELSE 0

\* index of the first malformed selector entry, 0 when there is none
FirstBadSelector(q) ==
    IF \E i \in 1..Len(q) : BadSelector(q[i])
    THEN CHOOSE i \in 1..Len(q) : BadSelector(q[i]) /\ \A j \in 1..(i - 1) : ~BadSelector(q[j])
    ELSE 0

\* port-pair parser: order kept, protocol TCP by default
ParsePorts(tcp) ==
    [i \in 1..Len(tcp) |->
        [port |-> tcp[i][1], targetPort |-> tcp[i][2], protocol |-> "TCP"]]

DuplicateKey(sel) ==
    \E i, j \in 1..Len(sel) : i < j /\ sel[i][1] = sel[j][1]

\* the first validation failure of a generator, NoError when it is valid
GenerateError(g) ==
    IF g.Name = "" THEN Error("ValidationError", "Name")
    ELSE IF FirstBadPort(g.TCP) # 0 THEN Error("InvalidPortSpec", "tcp")
    ELSE IF g.Type \in {ServiceTypeClusterIP, ServiceTypeNodePort}
            /\ g.ClusterIP \notin {"", "None"} /\ ~IsIP(g.ClusterIP)
         THEN Error("InvalidIP", g.ClusterIP)
    ELSE IF g.Type = ServiceTypeLoadBalancer
            /\ g.LoadBalancerIP # "" /\ ~IsIP(g.LoadBalancerIP)
         THEN Error("InvalidIP", g.LoadBalancerIP)
    ELSE IF g.Type = ServiceTypeLoadBalancer /\ FirstBadSelector(g.Selector) # 0
         THEN Error("InvalidSelector", g.Selector[FirstBadSelector(g.Selector)][1])
    ELSE IF g.Type = ServiceTypeLoadBalancer /\ DuplicateKey(g.Selector)
         THEN Error("DuplicateSelectorKey", "selector")
    ELSE IF g.Type = ServiceTypeExternalName /\ ~IsDNSName(g.ExternalName)
         THEN Error("InvalidDNSName", g.ExternalName)
    ELSE NoError

\* the Object a valid generator produces
GenerateObject(g) ==
    [kind |-> "Service",
     name |-> g.Name,
     type |-> g.Type,
     clusterIP |-> IF g.Type = ServiceTypeExternalName \/ g.ClusterIP = ""
                   THEN Absent ELSE g.ClusterIP,
     ports |-> ParsePorts(g.TCP),
     nodePort |-> IF g.Type = ServiceTypeNodePort THEN g.NodePort ELSE 0,
     loadBalancerIP |-> IF g.Type = ServiceTypeLoadBalancer THEN g.LoadBalancerIP ELSE "",
     selector |-> IF g.Type = ServiceTypeLoadBalancer THEN g.Selector ELSE <<>>,
     externalName |-> IF g.Type = ServiceTypeExternalName THEN g.ExternalName ELSE ""]

\* Generate() -> (Object, error): validation before construction
Generate(g) ==
    IF GenerateError(g) # NoError
    THEN [object |-> NilObject, err |-> GenerateError(g)]
    ELSE [object |-> GenerateObject(g), err |-> NoError]

\* a headless service: the None sentinel, no IP assigned
Headless(o) == o.kind = "Service" /\ o.clusterIP = "None"

(* ----------------------- create service: actions ---------------------- *)

Terminal == {"Printed", "DryRunPrinted", "Failed"}

CreateInit ==
    /\ pc = "Idle"
    /\ input = NoInput
    /\ name = ""
    /\ generator = NilGenerator
    /\ handed = NilGenerator
    /\ object = NilObject
    /\ err = NoError
    /\ steps = <<>>
    /\ submitted = FALSE
    /\ printed = ""
    /\ nInv = 0
    /\ hasPrev = FALSE
    /\ prevGen = NilGenerator
    /\ prevObj = NilObject

\* a new process state for one command execution
StartInvocation ==
    /\ pc' = "Invoked"
    /\ name' = ""
    /\ generator' = NilGenerator
    /\ handed' = NilGenerator
    /\ object' = NilObject
    /\ err' = NoError
    /\ steps' = <<>>
    /\ submitted' = FALSE
    /\ printed' = ""
    /\ nInv' = nInv + 1

\* the user runs a create-service command line
Invoke ==
    /\ pc = "Idle"
    /\ nInv < MaxInvocations
    /\ \E in \in Inputs : input' = in
    /\ StartInvocation
    /\ hasPrev' = FALSE
    /\ prevGen' = NilGenerator
    /\ prevObj' = NilObject
    /\ UNCHANGED viewVars

\* the user runs the same command line again
Repeat ==
    /\ pc \in Terminal
    /\ nInv < MaxInvocations
    /\ input' = input
    /\ StartInvocation
    /\ hasPrev' = TRUE
    /\ prevGen' = handed
    /\ prevObj' = object
    /\ UNCHANGED viewVars

\* what the command tree does with the command line before a Run closure runs
DispatchError(in) ==
    IF in.viaService /\ in.sub \notin RegisteredSubcommands
    THEN IF GivenFlags(in) # {}
         THEN Error("UnknownFlag", "service")
         ELSE Error("InvalidSubcommand", in.sub)
    ELSE IF ~(GivenFlags(in) \subseteq RegisteredFlags(in.sub))
         THEN Error("UnknownFlag", in.sub)
         ELSE NoError

\* the command tree finds the subcommand and parses its flags
Dispatch ==
    /\ pc = "Invoked"
    /\ IF DispatchError(input) # NoError
       THEN pc' = "Failed" /\ err' = DispatchError(input)
       ELSE pc' = "ParamsBuilt" /\ err' = err
    /\ UNCHANGED <<input, name, generator, handed, object, steps, submitted,
                   printed, nInv, hasPrev, prevGen, prevObj>>
    /\ UNCHANGED viewVars

\* the error of NameFromCommandArgs is not checked
ExtractName_IgnoreError ==
    /\ pc = "ParamsBuilt"
    /\ steps' = Append(steps, "NameFromCommandArgs")
    /\ pc' = "Named"
    /\ name' = NameFromCommandArgs(input.args).name
    /\ UNCHANGED <<input, generator, handed, object, err, submitted, printed,
                   nInv, hasPrev, prevGen, prevObj>>
    /\ UNCHANGED viewVars

\* name, err := NameFromCommandArgs(cmd, args); if err != nil { return err }
ExtractName ==
    /\ pc = "ParamsBuilt"
    /\ steps' = Append(steps, "NameFromCommandArgs")
    /\ LET r == NameFromCommandArgs(input.args) IN
         IF r.err # NoError
         THEN pc' = "Failed" /\ err' = r.err /\ name' = name
         ELSE pc' = "Named" /\ err' = err /\ name' = r.name
    /\ UNCHANGED <<input, generator, handed, object, submitted, printed,
                   nInv, hasPrev, prevGen, prevObj>>
    /\ UNCHANGED viewVars

\* the switch on generatorName: build the generator or return errUnsupportedGenerator
ResolveGenerator ==
    /\ pc = "Named"
    /\ steps' = Append(steps, "ResolveGenerator")
    /\ LET r == BuildGenerator(input, name) IN
         IF r.err # NoError
         THEN pc' = "Failed" /\ err' = r.err /\ generator' = generator
         ELSE pc' = "GeneratorResolved" /\ err' = err /\ generator' = r.generator
    /\ UNCHANGED <<input, name, handed, object, submitted, printed,
                   nInv, hasPrev, prevGen, prevObj>>
    /\ UNCHANGED viewVars

\* return RunCreateSubcommand(f, cmd, cmdOut, &CreateSubcommandOptions{...}):
\* the runner first has the generator produce the Object
RunCreateSubcommand ==
    /\ pc = "GeneratorResolved"
    /\ steps' = Append(steps, "RunCreateSubcommand")
    /\ handed' = generator
    /\ LET r == Generate(generator) IN
         IF r.err # NoError
         THEN pc' = "Failed" /\ err' = r.err /\ object' = object
         ELSE pc' = "Validated" /\ err' = err /\ object' = r.object
    /\ UNCHANGED <<input, name, generator, submitted, printed,
                   nInv, hasPrev, prevGen, prevObj>>
    /\ UNCHANGED viewVars

\* runner, dryRun set: the Object goes straight to the printer
DryRunPrint ==
    /\ pc = "Validated"
    /\ input.dryRun
    /\ printed' = "object"
    /\ \E ok \in BOOLEAN :
         IF ok THEN pc' = "DryRunPrinted" /\ err' = err
         ELSE pc' = "Failed" /\ err' = Error("PrintError", "")
    /\ UNCHANGED <<input, name, generator, handed, object, steps, submitted,
                   nInv, hasPrev, prevGen, prevObj>>
    /\ UNCHANGED viewVars

\* the Object is submitted whether or not dryRun is set
Submit_IgnoreDryRun ==
    /\ pc = "Validated"
    /\ submitted' = TRUE
    /\ \E ok \in BOOLEAN :
         IF ok THEN pc' = "Submitted" /\ err' = err
         ELSE pc' = "Failed" /\ err' = Error("SubmissionError", "")
    /\ UNCHANGED <<input, name, generator, handed, object, steps, printed,
                   nInv, hasPrev, prevGen, prevObj>>
    /\ UNCHANGED viewVars

\* runner, dryRun not set: the Object goes to the submission collaborator
Submit ==
    /\ pc = "Validated"
    /\ ~input.dryRun
    /\ submitted' = TRUE
    /\ \E ok \in BOOLEAN :
         IF ok THEN pc' = "Submitted" /\ err' = err
         ELSE pc' = "Failed" /\ err' = Error("SubmissionError", "")
    /\ UNCHANGED <<input, name, generator, handed, object, steps, printed,
                   nInv, hasPrev, prevGen, prevObj>>
    /\ UNCHANGED viewVars

\* runner, after a successful create: the object with the requested printer, or
\* the confirmation line
PrintCreated ==
    /\ pc = "Submitted"
    /\ printed' = IF input.outputFormat # "" THEN "object" ELSE "confirmation"
    /\ \E ok \in BOOLEAN :
         IF ok THEN pc' = "Printed" /\ err' = err
         ELSE pc' = "Failed" /\ err' = Error("PrintError", "")
    /\ UNCHANGED <<input, name, generator, handed, object, steps, submitted,
                   nInv, hasPrev, prevGen, prevObj>>
    /\ UNCHANGED viewVars

(* ----------------------------- config view --------------------------- *)

\* defaultOutputFormat := "yaml"
defaultOutputFormat == "yaml"

OutputValues == {"", "wide", "name", "json", "yaml"}

ViewInputs == [output : Flag(OutputValues, ""), minify : BOOLEAN]

NilConfig == [contexts |-> {}, current |-> "<nil>"]

\* the configs ConfigAccess.GetStartingConfig may return
Configs ==
    {[contexts |-> {"dev", "prod"}, current |-> "dev"],
     [contexts |-> {"dev"}, current |-> "dev"],
     [contexts |-> {"dev", "prod"}, current |-> "gone"]}

\* clientcmdapi.MinifyConfig: keeps what the current context uses, fails when
\* the current context does not exist
MinifyConfig(c) ==
    IF c.current \in c.contexts
    THEN [config |-> [c EXCEPT !.contexts = {c.current}], err |-> NoError]
    ELSE [config |-> c, err |-> Error("MinifyError", c.current)]

Call(c, e) == [call |-> c, err |-> e]

\* the view command after NewCmdConfigView: cmd.Flags().Set("output", defaultOutputFormat)
ViewInit ==
    /\ vpc = "Idle"
    /\ vinput = [output |-> [set |-> FALSE, val |-> ""], minify |-> FALSE]
    /\ flagOutput = defaultOutputFormat
    /\ outputFormat = ""
    /\ errOut = <<>>
    /\ printerFormat = "<none>"
    /\ config = NilConfig
    /\ loaded = NilConfig
    /\ vsteps = <<>>
    /\ vprints = 0
    /\ vprintedConfig = NilConfig
    /\ vret = NoError
    /\ vInv = 0

\* the user runs `pi config view`; the flag parser stores the flags given
ViewInvoke ==
    /\ vpc \in {"Idle", "Done", "Fatal"}
    /\ vInv < MaxInvocations
    /\ vInv' = vInv + 1
    /\ \E in \in ViewInputs :
         /\ vinput' = in
         /\ flagOutput' = IF in.output.set THEN in.output.val ELSE flagOutput
    /\ vpc' = "Run"
    /\ outputFormat' = ""
    /\ errOut' = <<>>
    /\ printerFormat' = "<none>"
    /\ config' = NilConfig
    /\ loaded' = NilConfig
    /\ vsteps' = <<>>
    /\ vprints' = 0
    /\ vprintedConfig' = NilConfig
    /\ vret' = NoError
    /\ UNCHANGED createVars

\* the value the "output" flag holds after the checks of the Run closure
ResetOutput(fmt, flag) ==
    IF fmt = "" THEN defaultOutputFormat ELSE flag

\* what the checks of the Run closure write to errOut
ResetMessages(fmt) ==
    (IF fmt \in {"wide", "name"} THEN <<"not available; reset to default">> ELSE <<>>)
    \o (IF fmt = "" THEN <<"reset to default as --output is empty">> ELSE <<>>)

\* Run closure: options.Complete(), then the checks of the output format
ViewCheckOutput ==
    /\ vpc = "Run"
    /\ outputFormat' = flagOutput
    /\ errOut' = errOut \o ResetMessages(flagOutput)
    /\ flagOutput' = ResetOutput(flagOutput, flagOutput)
    /\ vpc' = "Checked"
    /\ UNCHANGED <<vinput, printerFormat, config, loaded, vsteps, vprints,
                   vprintedConfig, vret, vInv>>
    /\ UNCHANGED createVars

\* Run closure: ExtractCmdPrintOptions, PrinterForOptions, CheckErr
ViewBuildPrinter ==
    /\ vpc = "Checked"
    /\ printerFormat' = flagOutput
    /\ \E ok \in BOOLEAN : vpc' = IF ok THEN "Printer" ELSE "Fatal"
    /\ UNCHANGED <<vinput, flagOutput, outputFormat, errOut, config, loaded,
                   vsteps, vprints, vprintedConfig, vret, vInv>>
    /\ UNCHANGED createVars

\* ViewOptions.Validate
Validate == NoError

\* ViewOptions.Run: config, err := o.loadConfig(); if err != nil { return err }
ViewLoadConfig ==
    /\ vpc = "Printer"
    /\ IF Validate # NoError
       THEN /\ vsteps' = Append(vsteps, Call("Validate", Validate))
            /\ vret' = Validate
            /\ vpc' = "Done"
            /\ UNCHANGED <<config, loaded>>
       ELSE \/ \E c \in Configs :
                 /\ vsteps' = vsteps \o <<Call("Validate", NoError),
                                          Call("GetStartingConfig", NoError)>>
                 /\ config' = c
                 /\ loaded' = c
                 /\ vret' = vret
                 /\ vpc' = "Loaded"
            \/ /\ vsteps' = vsteps \o <<Call("Validate", NoError),
                                        Call("GetStartingConfig", Error("LoadError", ""))>>
               /\ vret' = Error("LoadError", "")
               /\ vpc' = "Done"
               /\ UNCHANGED <<config, loaded>>
    /\ UNCHANGED <<vinput, flagOutput, outputFormat, errOut, printerFormat,
                   vprints, vprintedConfig, vInv>>
    /\ UNCHANGED createVars

\* the error of MinifyConfig is dropped and Run goes on to print
ViewMinify_SwallowError ==
    /\ vpc = "Loaded"
    /\ vinput.minify
    /\ LET r == MinifyConfig(config) IN
         /\ vsteps' = Append(vsteps, Call("MinifyConfig", r.err))
         /\ config' = r.config
    /\ vret' = vret
    /\ vpc' = "Minified"
    /\ UNCHANGED <<vinput, flagOutput, outputFormat, errOut, printerFormat,
                   loaded, vprints, vprintedConfig, vInv>>
    /\ UNCHANGED createVars

\* ViewOptions.Run: if o.Minify { if err := MinifyConfig(config); err != nil { return err } }
ViewMinify ==
    /\ vpc = "Loaded"
    /\ vinput.minify
    /\ LET r == MinifyConfig(config) IN
         /\ vsteps' = Append(vsteps, Call("MinifyConfig", r.err))
         /\ config' = r.config
         /\ IF r.err # NoError
            THEN vret' = r.err /\ vpc' = "Done"
            ELSE vret' = vret /\ vpc' = "Minified"
    /\ UNCHANGED <<vinput, flagOutput, outputFormat, errOut, printerFormat,
                   loaded, vprints, vprintedConfig, vInv>>
    /\ UNCHANGED createVars

\* ViewOptions.Run: err = printer.PrintObj(config, out); return err or nil
ViewPrintObj ==
    /\ \/ vpc = "Loaded" /\ ~vinput.minify
       \/ vpc = "Minified"
    /\ vprints' = vprints + 1
    /\ vprintedConfig' = config
    /\ \E e \in {NoError, Error("PrintError", "")} :
         /\ vsteps' = Append(vsteps, Call("PrintObj", e))
         /\ vret' = e
    /\ vpc' = "Done"
    /\ UNCHANGED <<vinput, flagOutput, outputFormat, errOut, printerFormat,
                   config, loaded, vInv>>
    /\ UNCHANGED createVars

Init == CreateInit /\ ViewInit

Next ==
    \/ Invoke
    \/ Repeat
    \/ Dispatch
    \/ ExtractName
    \/ ResolveGenerator
    \/ RunCreateSubcommand
    \/ DryRunPrint
    \/ Submit
    \/ PrintCreated

Spec == Init /\ [][Next]_vars

InitView == CreateInit /\ ViewInit

NextView ==
    \/ ViewInvoke
    \/ ViewCheckOutput
    \/ ViewBuildPrinter
    \/ ViewLoadConfig
    \/ ViewMinify
    \/ ViewPrintObj

SpecView == InitView /\ [][NextView]_vars

(* ------------------------------ properties ---------------------------- *)

IsPrefix(p, q) == Len(p) <= Len(q) /\ \A i \in 1..Len(p) : p[i] = q[i]

Called(step) == \E i \in 1..Len(steps) : steps[i] = step

\* the generator name the user asked for, when one was given
RequestedOther(in) ==
    in.argv.generator.set /\ in.argv.generator.val # V1Name(in.sub)

\* the subcommands whose switch reads the generator flag
ReadsGeneratorFlag == {"nodeport", "externalname"}

\* C1, as stated: in every subcommand, an invocation that reaches the
\* subcommand with a NAME and a requested generator other than the V1 name of
\* its kind ends with the unsupported-generator error naming that generator,
\* with no generator built and RunCreateSubcommand not called.
C1_EverySubcommandRejectsByName ==
    (/\ pc \in Terminal
     /\ ~(input.viaService /\ input.sub \notin RegisteredSubcommands)
     /\ input.args # <<>>
     /\ RequestedOther(input))
    => /\ pc = "Failed"
       /\ err = errUnsupportedGenerator(input.argv.generator.val)
       /\ generator = NilGenerator
       /\ handed = NilGenerator
       /\ ~Called("RunCreateSubcommand")

\* C1, amended: for nodeport and externalname, the subcommands that read the
\* generator flag, an invocation whose name was extracted and whose requested
\* generator is not the V1 name of its kind fails with the unsupported-generator
\* error naming it, builds no generator and does not call RunCreateSubcommand;
\* clusterip and loadbalancer never return an unsupported-generator error.
C1_UnsupportedGeneratorWhereFlagIsRead ==
    /\ (/\ pc \in Terminal
        /\ input.sub \in ReadsGeneratorFlag
        /\ Called("NameFromCommandArgs")
        /\ input.args # <<>>
        /\ RequestedOther(input))
       => /\ pc = "Failed"
          /\ err = errUnsupportedGenerator(input.argv.generator.val)
          /\ generator = NilGenerator
          /\ handed = NilGenerator
          /\ ~Called("RunCreateSubcommand")
    /\ input.sub \notin ReadsGeneratorFlag => err.kind # "UnsupportedGenerator"

C1_Witness ==
    /\ pc = "Failed"
    /\ input.sub = "nodeport"
    /\ input.args = <<"my-cs">>
    /\ err = errUnsupportedGenerator("nonexistent")

StepOrder == <<"NameFromCommandArgs", "ResolveGenerator", "RunCreateSubcommand">>

RunnerErrors ==
    {"ValidationError", "InvalidPortSpec", "InvalidIP", "InvalidSelector",
     "DuplicateSelectorKey", "InvalidDNSName", "SubmissionError", "PrintError"}

\* C2: the calls of an invocation are a prefix of name extraction, generator
\* resolution, RunCreateSubcommand (so each happens at most once, in that
\* order); a later step is reached only when the earlier ones returned no
\* error; a Failed invocation carries the error of the last step it made and
\* made no step after it.
C2_FixedOrderFirstErrorAborts ==
    /\ IsPrefix(steps, StepOrder)
    /\ Called("ResolveGenerator") =>
         /\ NameFromCommandArgs(input.args).err = NoError
         /\ name = NameFromCommandArgs(input.args).name
    /\ Called("RunCreateSubcommand") =>
         /\ BuildGenerator(input, name).err = NoError
         /\ handed = generator
         /\ generator # NilGenerator
    /\ ~Called("ResolveGenerator") => generator = NilGenerator
    /\ ~Called("RunCreateSubcommand") => handed = NilGenerator /\ object = NilObject
    /\ pc # "Failed" => err = NoError
    /\ pc = "Failed" =>
         \/ steps = <<>> /\ err = DispatchError(input)
         \/ /\ steps = SubSeq(StepOrder, 1, 1)
            /\ err = NameFromCommandArgs(input.args).err
            /\ err # NoError
         \/ /\ steps = SubSeq(StepOrder, 1, 2)
            /\ err = BuildGenerator(input, name).err
            /\ err # NoError
         \/ /\ steps = StepOrder
            /\ err.kind \in RunnerErrors

C2_Witness ==
    /\ pc = "Failed"
    /\ steps = <<"NameFromCommandArgs">>
    /\ err.kind = "UsageError"
    /\ generator = NilGenerator

\* C3: with dryRun set the Object is never handed to the submission
\* collaborator and the invocation never is in Submitted or Printed; a
\* DryRunPrinted invocation gave the Object to the printer.
C3_DryRunNeverSubmits ==
    /\ input.dryRun => ~submitted /\ pc \notin {"Submitted", "Printed"}
    /\ pc = "DryRunPrinted" => input.dryRun /\ printed = "object" /\ ~submitted

C3_Witness ==
    /\ pc = "DryRunPrinted"
    /\ input.dryRun
    /\ object.kind = "Service"

\* C4: in an ExternalName invocation the generator, and the one handed to
\* RunCreateSubcommand, never has a ClusterIP.
C4_ExternalNameNoClusterIP ==
    input.sub = "externalname" =>
        /\ generator.ClusterIP = ""
        /\ handed.ClusterIP = ""

C4_Witness ==
    /\ input.sub = "externalname"
    /\ handed.Type = ServiceTypeExternalName
    /\ handed.ExternalName = "bar.com"
    /\ handed.Name = "my-cs"

\* C5: in the ClusterIP variant the clusterip flag reaches the generator
\* unchanged; with the value "None" every Object produced is headless, and the
\* generation does not fail for want of ports (only an error of a name or of a
\* port pair itself stops it).
C5_NoneIsHeadless ==
    (input.sub = "clusterip" /\ generator # NilGenerator) =>
        /\ generator.ClusterIP = GetFlag(input, "clusterip")
        /\ (GetFlag(input, "clusterip") = "None" /\ Called("RunCreateSubcommand")) =>
              /\ handed.ClusterIP = "None"
              /\ object # NilObject => Headless(object)
              /\ (object = NilObject) =>
                    /\ pc = "Failed"
                    /\ err.kind \in {"ValidationError", "InvalidPortSpec"}
              /\ (GetFlag(input, "tcp") = <<>> /\ name # "") => Headless(object)

C5_Witness ==
    /\ input.sub = "clusterip"
    /\ GetFlag(input, "clusterip") = "None"
    /\ GetFlag(input, "tcp") = <<>>
    /\ pc = "Printed"
    /\ Headless(object)

KindType(sub) ==
    CASE sub = "clusterip"    -> ServiceTypeClusterIP
      [] sub = "nodeport"     -> ServiceTypeNodePort
      [] sub = "loadbalancer" -> ServiceTypeLoadBalancer
      [] sub = "externalname" -> ServiceTypeExternalName

\* C9: a generator that was built has the Type of its subcommand's kind, the
\* extracted name as Name, that kind's fields as the flags give them and every
\* other field zero-valued.
C9_OnlyOwnFields ==
    generator # NilGenerator =>
        /\ generator.Type = KindType(input.sub)
        /\ generator.Name = name
        /\ generator.Name = input.args[1]
        /\ input.sub = "clusterip" =>
             /\ generator.TCP = GetFlag(input, "tcp")
             /\ generator.ClusterIP = GetFlag(input, "clusterip")
             /\ generator.NodePort = 0
             /\ generator.LoadBalancerIP = ""
             /\ generator.Selector = <<>>
             /\ generator.ExternalName = ""
        /\ input.sub = "nodeport" =>
             /\ generator.TCP = GetFlag(input, "tcp")
             /\ generator.NodePort = GetFlag(input, "nodeport")
             /\ generator.ClusterIP = ""
             /\ generator.LoadBalancerIP = ""
             /\ generator.Selector = <<>>
             /\ generator.ExternalName = ""
        /\ input.sub = "loadbalancer" =>
             /\ generator.TCP = GetFlag(input, "tcp")
             /\ generator.LoadBalancerIP = GetFlag(input, "loadbalancerip")
             /\ generator.Selector = GetFlag(input, "selector")
             /\ generator.ClusterIP = ""
             /\ generator.NodePort = 0
             /\ generator.ExternalName = ""
        /\ input.sub = "externalname" =>
             /\ generator.ExternalName = GetFlag(input, "externalname")
             /\ generator.TCP = <<>>
             /\ generator.ClusterIP = ""
             /\ generator.NodePort = 0
             /\ generator.LoadBalancerIP = ""
             /\ generator.Selector = <<>>

C9_Witness ==
    /\ input.sub = "externalname"
    /\ input.argv.tcp.set
    /\ generator.Type = ServiceTypeExternalName
    /\ generator.TCP = <<>>

\* C10: an invocation dispatched through the `service` command reaches only
\* clusterip and loadbalancer: for nodeport and externalname no step of the
\* implementation runs, and no generator of Type NodePort or ExternalName is
\* built or handed to RunCreateSubcommand.
C10_ServiceTreeHasTwoSubcommands ==
    input.viaService =>
        /\ generator.Type \notin {ServiceTypeNodePort, ServiceTypeExternalName}
        /\ handed.Type \notin {ServiceTypeNodePort, ServiceTypeExternalName}
        /\ input.sub \in {"nodeport", "externalname"} =>
              steps = <<>> /\ pc \in {"Invoked", "Failed"}
        /\ (input.sub \in {"clusterip", "loadbalancer"}
              /\ GivenFlags(input) \subseteq RegisteredFlags(input.sub)
              /\ pc \in Terminal) => steps # <<>>

C10_Witness ==
    /\ input.viaService
    /\ input.sub = "nodeport"
    /\ pc = "Failed"
    /\ err.kind = "InvalidSubcommand"

\* C7: the printer is never built with format "wide", "name" or ""; any other
\* --output value is the format the printer is built with.
C7_UnavailableFormatsReset ==
    /\ printerFormat \notin {"wide", "name", ""}
    /\ (printerFormat # "<none>" /\ outputFormat \in {"wide", "name", ""}) =>
          printerFormat = defaultOutputFormat
    /\ (printerFormat # "<none>" /\ outputFormat \notin {"wide", "name", ""}) =>
          printerFormat = outputFormat

Calls(q) == [i \in 1..Len(q) |-> q[i].call]

RunOrder(minify) ==
    IF minify
    THEN <<"Validate", "GetStartingConfig", "MinifyConfig", "PrintObj">>
    ELSE <<"Validate", "GetStartingConfig", "PrintObj">>

\* C8: ViewOptions.Run calls Validate, GetStartingConfig, MinifyConfig (only
\* with Minify) and PrintObj in that order, each only after the earlier ones
\* returned no error; it prints at most once; it returns the error of the
\* last call, hence nil exactly when PrintObj succeeded; without Minify the
\* config printed is the one that was loaded.
C8_PrintOnceAfterSuccess ==
    /\ vprints <= 1
    /\ IsPrefix(Calls(vsteps), RunOrder(vinput.minify))
    /\ \A i \in 1..(Len(vsteps) - 1) : vsteps[i].err = NoError
    /\ vprints = 1 <=> (Len(vsteps) > 0 /\ vsteps[Len(vsteps)].call = "PrintObj")
    /\ vprints = 0 => vprintedConfig = NilConfig
    /\ (vprints = 1 /\ ~vinput.minify) => vprintedConfig = loaded
    /\ (vprints = 1 /\ vinput.minify) => vprintedConfig = MinifyConfig(loaded).config
    /\ vpc = "Done" =>
         /\ Len(vsteps) > 0
         /\ vret = vsteps[Len(vsteps)].err
         /\ vret = NoError <=>
              (vsteps[Len(vsteps)].call = "PrintObj" /\ vsteps[Len(vsteps)].err = NoError)

C8_Witness ==
    /\ vpc = "Done"
    /\ vinput.minify
    /\ vret.kind = "MinifyError"
    /\ vprints = 0

====
